---------------------------- MODULE Spec2Model ----------------------------
(***************************************************************************)
(* Mass-spring cloth simulator (class Cloth): particle grid, spring        *)
(* network, force accumulation, Stormer-Verlet integration, iterative      *)
(* max-stretch constraint projection, sphere and self collision.           *)
(*                                                                         *)
(* Numbers.  The program computes in IEEE single precision.  The model     *)
(* computes in decimal fixed point: every float is an integer count of     *)
(* 1/SCALE units, and every multiplication and division rounds its result  *)
(* to the nearest unit (half away from zero), the way every float          *)
(* operation rounds its result.  Integer operands of the program (rows,    *)
(* cols, loop counters, constraintIters) stay plain integers.              *)
(***************************************************************************)
EXTENDS Integers, Sequences, FiniteSets, TLC

VARIABLES
    rows, cols, spacing,   \* Cloth::rows, cols, spacing
    particles,             \* Cloth::particles (index 0 .. rows*cols-1)
    springs,               \* Cloth::springs (construction order)
    par,                   \* the public parameter fields of Cloth, by name
    globalTime,            \* Cloth::globalTime
    lastOp,                \* the public operation that ran last
    lastDt,                \* the argument of the last update call (0: none yet)
    nOps                   \* number of operations applied so far

geom == <<rows, cols, spacing>>
vars == <<geom, particles, springs, par, globalTime, lastOp, lastDt, nOps>>

-----------------------------------------------------------------------------
(* Bounds of the model                                                     *)

MaxRows == 2
MaxCols == 3
MaxOps == 3
MaxBuildDim == 3
MaxBuildOps == 2
MaxHangSteps == 7
MaxFallSteps == 6
MaxCentreOps == 2
MaxFoldOps == 3
MaxRestOps == 3
MaxPinCols == 2
MaxPinOps == 5
Tol == 4

-----------------------------------------------------------------------------
(* Fixed-point arithmetic standing for float arithmetic                    *)

SCALE == 1000

Abs(x) == IF x < 0 THEN -x ELSE x

\* a / b rounded to the nearest integer, half away from zero
RDiv(a, b) ==
    LET s == IF (a < 0) = (b < 0) THEN 1 ELSE -1
        n == Abs(a)
        d == Abs(b)
    IN  s * ((2 * n + d) \div (2 * d))

\* float * float: |a| * |b| / SCALE rounded to the nearest unit, computed on
\* the quotient and remainder of the larger operand so that no intermediate
\* product exceeds 32-bit integers
Mul(a, b) ==
    LET s  == IF (a < 0) = (b < 0) THEN 1 ELSE -1
        hi == IF Abs(a) >= Abs(b) THEN Abs(a) ELSE Abs(b)
        lo == IF Abs(a) >= Abs(b) THEN Abs(b) ELSE Abs(a)
    IN  s * ((hi \div SCALE) * lo + (2 * (hi % SCALE) * lo + SCALE) \div (2 * SCALE))

\* float / float: |a| * SCALE / |b| rounded to the nearest unit
Div(a, b) ==
    LET s == IF (a < 0) = (b < 0) THEN 1 ELSE -1
        n == Abs(a)
        d == Abs(b)
    IN  s * ((n \div d) * SCALE + (2 * (n % d) * SCALE + d) \div (2 * d))

RECURSIVE SqrtIter(_, _)
SqrtIter(n, x) ==
    LET y == (x + n \div x) \div 2
    IN  IF y >= x THEN x ELSE SqrtIter(n, y)

\* std::sqrt on a sum of squares of unit counts, rounded to the nearest unit
ISqrt(n) ==
    IF n <= 0 THEN 0
    ELSE LET r == SqrtIter(n, IF n < 46340 THEN n ELSE 46340)
         IN  IF n - r * r > r THEN r + 1 ELSE r

\* glm::vec3 and its operators
ZeroVec == <<0, 0, 0>>
VAdd(u, v) == <<u[1] + v[1], u[2] + v[2], u[3] + v[3]>>
VSub(u, v) == <<u[1] - v[1], u[2] - v[2], u[3] - v[3]>>
\* vec3 * float
VScale(u, s) == <<Mul(u[1], s), Mul(u[2], s), Mul(u[3], s)>>
\* vec3 / float
VDivS(u, s) == <<Div(u[1], s), Div(u[2], s), Div(u[3], s)>>
\* 2.f * vec3 (exact)
VTwice(u) == <<2 * u[1], 2 * u[2], 2 * u[3]>>
\* glm::dot
Dot(u, v) == Mul(u[1], v[1]) + Mul(u[2], v[2]) + Mul(u[3], v[3])
\* glm::length
Length(u) == ISqrt(u[1] * u[1] + u[2] * u[2] + u[3] * u[3])

\* the literal 0.5f
HALF == 500
\* the literal 1e-6f of the degeneracy guards: below the model's resolution,
\* so that on unit counts  dist < 1e-6f  is  dist <= EPS_LEN  and
\* dist > 1e-6f  is  dist > EPS_LEN
EPS_LEN == 0
\* the literal 1e-3f of the sphere push-out
EPS_SPHERE == 1

-----------------------------------------------------------------------------
(* Defaults of the tunable parameters                                      *)

DEFAULT_SPRING_STIFFNESS == 500000
DEFAULT_BEND_STIFFNESS == 50000
DEFAULT_SPRING_DAMPING == 100
DEFAULT_AIR_DAMPING == 10
DEFAULT_PARTICLE_MASS == 1000
DEFAULT_MAX_STRETCH == 1100
DEFAULT_MAX_COMPRESS == 900
DEFAULT_CONSTRAINT_ITERS == 15
DEFAULT_GRAVITY == <<0, -9800, 0>>
\* The Constants.h that declares the two wind defaults is not among the
\* sources; the values below stand for them
DEFAULT_WIND_STRENGTH == 5000
DEFAULT_WIND_DIRECTION == <<0, 0, 1000>>

-----------------------------------------------------------------------------
(* Topology builder                                                        *)

\* Cloth::idx
idx(row, col, nc) == row * nc + col

\* a pin that also stops the particle
PinAtAndStop(ps, i) == [ps EXCEPT ![i].pinned = TRUE, ![i].velocity = ZeroVec]

\* Cloth::pin on a particle array
PinAt(ps, i) == [ps EXCEPT ![i].pinned = TRUE]

\* the particle pushed for cell (r, c)
NewParticle(r, c, nr, nc, sp) ==
    LET startX == Mul(-(nc - 1) * sp, HALF)
        startY == (nr - 1) * sp
        pos    == <<startX + c * sp, startY - r * sp, 0>>
    IN  [position |-> pos, prevPosition |-> pos, velocity |-> ZeroVec,
         force |-> ZeroVec, mass |-> DEFAULT_PARTICLE_MASS, pinned |-> FALSE]

\* buildParticles that forgets the second default pin
BuildParticlesOnePin(nr, nc, sp) ==
    LET grid == [i \in 0 .. (nr * nc - 1) |->
                    NewParticle(i \div nc, i % nc, nr, nc, sp)]
    IN  PinAt(grid, idx(0, 0, nc))

\* Cloth::buildParticles
BuildParticles(nr, nc, sp) ==
    LET grid == [i \in 0 .. (nr * nc - 1) |->
                    NewParticle(i \div nc, i % nc, nr, nc, sp)]
    IN  PinAt(PinAt(grid, idx(0, 0, nc)), idx(0, nc - 1, nc))

\* addSpring that measures the rest length from a to a
AddSpringSelfLength(sprs, ps, a, b, stiffness, damping, type) ==
    Append(sprs, [a |-> a, b |-> b,
                  restLength |-> Length(VSub(ps[a].position, ps[a].position)),
                  stiffness |-> stiffness, damping |-> damping, type |-> type])

\* Cloth::addSpring
AddSpring(sprs, ps, a, b, stiffness, damping, type) ==
    Append(sprs, [a |-> a, b |-> b,
                  restLength |-> Length(VSub(ps[a].position, ps[b].position)),
                  stiffness |-> stiffness, damping |-> damping, type |-> type])

\* the loop body with the bending springs given the structural stiffness
CellSpringsBendAsStructural(sprs, ps, r, c, nr, nc, kS, kB, damp) ==
    LET s1 == IF c + 1 < nc
              THEN AddSpring(sprs, ps, idx(r, c, nc), idx(r, c + 1, nc), kS, damp, "Structural")
              ELSE sprs
        s2 == IF r + 1 < nr
              THEN AddSpring(s1, ps, idx(r, c, nc), idx(r + 1, c, nc), kS, damp, "Structural")
              ELSE s1
        s3 == IF r + 1 < nr /\ c + 1 < nc
              THEN AddSpring(s2, ps, idx(r, c, nc), idx(r + 1, c + 1, nc), kS, damp, "Shear")
              ELSE s2
        s4 == IF r + 1 < nr /\ c - 1 >= 0
              THEN AddSpring(s3, ps, idx(r, c, nc), idx(r + 1, c - 1, nc), kS, damp, "Shear")
              ELSE s3
        s5 == IF c + 2 < nc
              THEN AddSpring(s4, ps, idx(r, c, nc), idx(r, c + 2, nc), kS, damp, "Bending")
              ELSE s4
        s6 == IF r + 2 < nr
              THEN AddSpring(s5, ps, idx(r, c, nc), idx(r + 2, c, nc), kS, damp, "Bending")
              ELSE s5
    IN  s6

\* the loop body with the down-left shear spring not checked against column 0
CellSpringsNoLeftCheck(sprs, ps, r, c, nr, nc, kS, kB, damp) ==
    LET s1 == IF c + 1 < nc
              THEN AddSpring(sprs, ps, idx(r, c, nc), idx(r, c + 1, nc), kS, damp, "Structural")
              ELSE sprs
        s2 == IF r + 1 < nr
              THEN AddSpring(s1, ps, idx(r, c, nc), idx(r + 1, c, nc), kS, damp, "Structural")
              ELSE s1
        s3 == IF r + 1 < nr /\ c + 1 < nc
              THEN AddSpring(s2, ps, idx(r, c, nc), idx(r + 1, c + 1, nc), kS, damp, "Shear")
              ELSE s2
        s4 == IF r + 1 < nr
              THEN AddSpring(s3, ps, idx(r, c, nc), idx(r + 1, c - 1, nc), kS, damp, "Shear")
              ELSE s3
        s5 == IF c + 2 < nc
              THEN AddSpring(s4, ps, idx(r, c, nc), idx(r, c + 2, nc), kB, damp, "Bending")
              ELSE s4
        s6 == IF r + 2 < nr
              THEN AddSpring(s5, ps, idx(r, c, nc), idx(r + 2, c, nc), kB, damp, "Bending")
              ELSE s5
    IN  s6

\* the body of the double loop of Cloth::buildSprings for cell (r, c)
CellSprings(sprs, ps, r, c, nr, nc, kS, kB, damp) ==
    LET s1 == IF c + 1 < nc
              THEN AddSpring(sprs, ps, idx(r, c, nc), idx(r, c + 1, nc), kS, damp, "Structural")
              ELSE sprs
        s2 == IF r + 1 < nr
              THEN AddSpring(s1, ps, idx(r, c, nc), idx(r + 1, c, nc), kS, damp, "Structural")
              ELSE s1
        s3 == IF r + 1 < nr /\ c + 1 < nc
              THEN AddSpring(s2, ps, idx(r, c, nc), idx(r + 1, c + 1, nc), kS, damp, "Shear")
              ELSE s2
        s4 == IF r + 1 < nr /\ c - 1 >= 0
              THEN AddSpring(s3, ps, idx(r, c, nc), idx(r + 1, c - 1, nc), kS, damp, "Shear")
              ELSE s3
        s5 == IF c + 2 < nc
              THEN AddSpring(s4, ps, idx(r, c, nc), idx(r, c + 2, nc), kB, damp, "Bending")
              ELSE s4
        s6 == IF r + 2 < nr
              THEN AddSpring(s5, ps, idx(r, c, nc), idx(r + 2, c, nc), kB, damp, "Bending")
              ELSE s5
    IN  s6

\* the double loop over the cells, row by row; a cell only appends
RECURSIVE BuildSpringsFrom(_, _, _, _, _, _, _, _)
BuildSpringsFrom(k, sprs, ps, nr, nc, kS, kB, damp) ==
    IF k >= nr * nc THEN sprs
    ELSE LET next == CellSprings(sprs, ps, k \div nc, k % nc, nr, nc, kS, kB, damp)
         IN  IF Len(next) >= Len(sprs)
             THEN BuildSpringsFrom(k + 1, next, ps, nr, nc, kS, kB, damp)
             ELSE next

\* Cloth::buildSprings
BuildSprings(ps, nr, nc, kS, kB, damp) ==
    BuildSpringsFrom(0, <<>>, ps, nr, nc, kS, kB, damp)

-----------------------------------------------------------------------------
(* Sine of the wind phase                                                  *)

PI == 3142
\* x reduced to [-PI, PI]
RECURSIVE WrapPi(_)
WrapPi(x) == IF x > PI THEN WrapPi(x - 2 * PI)
             ELSE IF x < -PI THEN WrapPi(x + 2 * PI) ELSE x

\* x - x^3/3! + x^5/5! - x^7/7! on [-PI/2, PI/2]
SinPoly(x) ==
    LET x2 == Mul(x, x)
        x3 == Mul(x2, x)
        x5 == Mul(x3, x2)
        x7 == Mul(x5, x2)
    IN  x - RDiv(x3, 6) + RDiv(x5, 120) - RDiv(x7, 5040)

\* std::sin
Sin(x) ==
    LET w == WrapPi(x)
        f == IF 2 * w > PI THEN PI - w ELSE IF 2 * w < -PI THEN -PI - w ELSE w
    IN  SinPoly(f)

-----------------------------------------------------------------------------
(* Force accumulator                                                       *)

\* a force loop that adds the wind term whether or not wind is enabled
BaseForceWindAlways(p, g, airD, wEn, wStr, wDir, gt) ==
    IF p.pinned THEN ZeroVec
    ELSE LET f1 == VAdd(ZeroVec, VScale(g, p.mass))
             f2 == VSub(f1, VScale(p.velocity, airD))
             windMagnitude == Mul(wStr, Sin(Mul(gt, 2 * SCALE)))
         IN  VAdd(f2, VScale(VScale(wDir, windMagnitude), p.mass))

\* a force loop with the default gravity built in
BaseForceDefaultGravity(p, g, airD, wEn, wStr, wDir, gt) ==
    IF p.pinned THEN ZeroVec
    ELSE LET f1 == VAdd(ZeroVec, VScale(DEFAULT_GRAVITY, p.mass))
             f2 == VSub(f1, VScale(p.velocity, airD))
         IN  IF wEn
             THEN LET windMagnitude == Mul(wStr, Sin(Mul(gt, 2 * SCALE)))
                  IN  VAdd(f2, VScale(VScale(wDir, windMagnitude), p.mass))
             ELSE f2

\* first two loops of Cloth::applyForces: reset, then gravity, drag and wind
BaseForce(p, g, airD, wEn, wStr, wDir, gt) ==
    IF p.pinned THEN ZeroVec
    ELSE LET f1 == VAdd(ZeroVec, VScale(g, p.mass))
             f2 == VSub(f1, VScale(p.velocity, airD))
             windMagnitude == Mul(wStr, Sin(Mul(gt, 2 * SCALE)))
         IN  IF wEn THEN VAdd(f2, VScale(VScale(wDir, windMagnitude), p.mass))
             ELSE f2

\* a spring force that takes a pinned endpoint to be at rest
SpringTotalFPinnedAtRest(pa, pb, s) ==
    LET delta   == VSub(pb.position, pa.position)
        dist    == Length(delta)
        dir     == VDivS(delta, dist)
        stretch == dist - s.restLength
        springF == VScale(dir, Mul(s.stiffness, stretch))
        velA    == IF pa.pinned THEN ZeroVec ELSE pa.velocity
        velB    == IF pb.pinned THEN ZeroVec ELSE pb.velocity
        relVel  == VSub(velB, velA)
        dampF   == VScale(dir, Mul(s.damping, Dot(relVel, dir)))
    IN  VAdd(springF, dampF)

\* the total force of one spring (Hooke term plus axial damping), acting on
\* endpoint a; only used when the spring is not degenerate
SpringTotalF(pa, pb, s) ==
    LET delta   == VSub(pb.position, pa.position)
        dist    == Length(delta)
        dir     == VDivS(delta, dist)
        stretch == dist - s.restLength
        springF == VScale(dir, Mul(s.stiffness, stretch))
        relVel  == VSub(pb.velocity, pa.velocity)
        dampF   == VScale(dir, Mul(s.damping, Dot(relVel, dir)))
    IN  VAdd(springF, dampF)

\* a spring step that applies the force to both endpoints, pinned or not
SpringForceStepNoPinGate(ps, s) ==
    LET pa   == ps[s.a]
        pb   == ps[s.b]
        dist == Length(VSub(pb.position, pa.position))
    IN  IF dist <= EPS_LEN THEN ps
        ELSE LET totalF == SpringTotalF(pa, pb, s)
             IN  [ps EXCEPT ![s.a].force = VAdd(@, totalF),
                            ![s.b].force = VSub(@, totalF)]

\* body of the spring loop of Cloth::applyForces
SpringForceStep(ps, s) ==
    LET pa   == ps[s.a]
        pb   == ps[s.b]
        dist == Length(VSub(pb.position, pa.position))
    IN  IF dist <= EPS_LEN THEN ps
        ELSE LET totalF == SpringTotalF(pa, pb, s)
                 ps1 == IF ~pa.pinned
                        THEN [ps EXCEPT ![s.a].force = VAdd(@, totalF)]
                        ELSE ps
             IN  IF ~pb.pinned
                 THEN [ps1 EXCEPT ![s.b].force = VSub(@, totalF)]
                 ELSE ps1

\* the spring loop, in construction order; each step is evaluated before the
\* next one starts (a step never changes the size of the array)
RECURSIVE SpringForces(_, _, _)
SpringForces(ps, sprs, k) ==
    IF k > Len(sprs) THEN ps
    ELSE LET next == SpringForceStep(ps, sprs[k])
         IN  IF DOMAIN next = DOMAIN ps
             THEN SpringForces(next, sprs, k + 1)
             ELSE next

\* Cloth::applyForces
ApplyForces(ps, sprs, g, airD, wEn, wStr, wDir, gt) ==
    LET based == [i \in DOMAIN ps |->
                    [ps[i] EXCEPT !.force = BaseForce(ps[i], g, airD, wEn, wStr, wDir, gt)]]
    IN  SpringForces(based, sprs, 1)

-----------------------------------------------------------------------------
(* Integrator                                                              *)

\* an integrator step that advances by half the acceleration term
IntegrateParticleHalf(p, dt) ==
    IF p.pinned THEN p
    ELSE LET accel  == VDivS(p.force, p.mass)
             newPos == VAdd(VSub(VTwice(p.position), p.prevPosition),
                            VScale(VScale(VScale(accel, dt), dt), HALF))
         IN  [p EXCEPT !.velocity = VDivS(VSub(newPos, p.prevPosition), 2 * dt),
                       !.prevPosition = p.position,
                       !.position = newPos]

\* an integrator step that advances prevPosition first and then takes the
\* velocity from it
IntegrateParticlePrevFirst(p, dt) ==
    IF p.pinned THEN p
    ELSE LET accel  == VDivS(p.force, p.mass)
             newPos == VAdd(VSub(VTwice(p.position), p.prevPosition),
                            VScale(VScale(accel, dt), dt))
         IN  [p EXCEPT !.velocity = VDivS(VSub(newPos, p.position), 2 * dt),
                       !.prevPosition = p.position,
                       !.position = newPos]

\* body of the loop of Cloth::integrate
IntegrateParticle(p, dt) ==
    IF p.pinned THEN p
    ELSE LET accel  == VDivS(p.force, p.mass)
             newPos == VAdd(VSub(VTwice(p.position), p.prevPosition),
                            VScale(VScale(accel, dt), dt))
         IN  [p EXCEPT !.velocity = VDivS(VSub(newPos, p.prevPosition), 2 * dt),
                       !.prevPosition = p.position,
                       !.position = newPos]

\* Cloth::integrate
Integrate(ps, dt) == [i \in DOMAIN ps |-> IntegrateParticle(ps[i], dt)]

-----------------------------------------------------------------------------
(* Constraint solver                                                       *)

Clamp(x, lo, hi) ==
    LET raised == IF x < lo THEN lo ELSE x
    IN  IF hi < raised THEN hi ELSE raised

\* a distribution that splits every correction, pinned endpoints included
ApplyCorrectionIgnorePins(ps, s, correction) ==
    [ps EXCEPT ![s.a].position = VAdd(@, VScale(correction, HALF)),
               ![s.b].position = VSub(@, VScale(correction, HALF))]

\* a distribution that gives a free endpoint half of the correction also
\* when the other endpoint is pinned
ApplyCorrectionHalfWhenPinned(ps, s, correction) ==
    LET pa == ps[s.a]
        pb == ps[s.b]
    IN  IF ~pa.pinned /\ ~pb.pinned
        THEN [ps EXCEPT ![s.a].position = VAdd(@, VScale(correction, HALF)),
                        ![s.b].position = VSub(@, VScale(correction, HALF))]
        ELSE IF ~pa.pinned
        THEN [ps EXCEPT ![s.a].position = VAdd(@, VScale(correction, HALF))]
        ELSE IF ~pb.pinned
        THEN [ps EXCEPT ![s.b].position = VSub(@, VScale(correction, HALF))]
        ELSE ps

\* how the correction of one spring is distributed over its endpoints
ApplyCorrection(ps, s, correction) ==
    LET pa == ps[s.a]
        pb == ps[s.b]
    IN  IF ~pa.pinned /\ ~pb.pinned
        THEN [ps EXCEPT ![s.a].position = VAdd(@, VScale(correction, HALF)),
                        ![s.b].position = VSub(@, VScale(correction, HALF))]
        ELSE IF ~pa.pinned
        THEN [ps EXCEPT ![s.a].position = VAdd(@, correction)]
        ELSE IF ~pb.pinned
        THEN [ps EXCEPT ![s.b].position = VSub(@, correction)]
        ELSE ps

\* a loop body that only limits stretch, never compression
ConstraintStepStretchOnly(ps, s, maxC, maxS) ==
    LET delta  == VSub(ps[s.b].position, ps[s.a].position)
        dist   == Length(delta)
        maxLen == Mul(s.restLength, maxS)
    IN  IF dist <= EPS_LEN THEN ps
        ELSE IF dist > maxLen
        THEN LET correction == VScale(delta, Div(dist - maxLen, dist))
             IN  ApplyCorrection(ps, s, correction)
        ELSE ps

\* a loop body that projects an out-of-band spring onto its rest length
ConstraintStepToRest(ps, s, maxC, maxS) ==
    LET delta  == VSub(ps[s.b].position, ps[s.a].position)
        dist   == Length(delta)
        minLen == Mul(s.restLength, maxC)
        maxLen == Mul(s.restLength, maxS)
    IN  IF dist <= EPS_LEN THEN ps
        ELSE IF dist < minLen \/ dist > maxLen
        THEN LET correction == VScale(delta, Div(dist - s.restLength, dist))
             IN  ApplyCorrection(ps, s, correction)
        ELSE ps

\* body of the inner loop of Cloth::satisfyConstraints
ConstraintStep(ps, s, maxC, maxS) ==
    LET delta  == VSub(ps[s.b].position, ps[s.a].position)
        dist   == Length(delta)
        minLen == Mul(s.restLength, maxC)
        maxLen == Mul(s.restLength, maxS)
    IN  IF dist <= EPS_LEN THEN ps
        ELSE IF dist < minLen \/ dist > maxLen
        THEN LET target     == Clamp(dist, minLen, maxLen)
                 correction == VScale(delta, Div(dist - target, dist))
             IN  ApplyCorrection(ps, s, correction)
        ELSE ps

\* one pass over the spring list, in construction order
RECURSIVE ConstraintPass(_, _, _, _, _)
ConstraintPass(ps, sprs, k, maxC, maxS) ==
    IF k > Len(sprs) THEN ps
    ELSE LET next == ConstraintStep(ps, sprs[k], maxC, maxS)
         IN  IF DOMAIN next = DOMAIN ps
             THEN ConstraintPass(next, sprs, k + 1, maxC, maxS)
             ELSE next

\* an outer loop that tests its bound only after the pass (do ... while)
RECURSIVE ConstraintIterateAtLeastOnce(_, _, _, _, _, _)
ConstraintIterateAtLeastOnce(ps, sprs, iter, iters, maxC, maxS) ==
    LET next == ConstraintPass(ps, sprs, 1, maxC, maxS)
    IN  IF DOMAIN next = DOMAIN ps /\ iter + 1 < iters
        THEN ConstraintIterateAtLeastOnce(next, sprs, iter + 1, iters, maxC, maxS)
        ELSE next

\* the outer loop; each pass is evaluated before the next one starts (a pass
\* never changes the size of the array)
RECURSIVE ConstraintIterate(_, _, _, _, _, _)
ConstraintIterate(ps, sprs, iter, iters, maxC, maxS) ==
    IF iter >= iters THEN ps
    ELSE LET next == ConstraintPass(ps, sprs, 1, maxC, maxS)
         IN  IF DOMAIN next = DOMAIN ps
             THEN ConstraintIterate(next, sprs, iter + 1, iters, maxC, maxS)
             ELSE next

\* a solver that also stops every particle it has moved
SatisfyConstraintsStopCorrected(ps, sprs, iters, maxC, maxS) ==
    LET solved == ConstraintIterate(ps, sprs, 0, iters, maxC, maxS)
    IN  [i \in DOMAIN ps |->
            IF solved[i].position # ps[i].position
            THEN [solved[i] EXCEPT !.velocity = ZeroVec]
            ELSE solved[i]]

\* Cloth::satisfyConstraints
SatisfyConstraints(ps, sprs, iters, maxC, maxS) ==
    ConstraintIterate(ps, sprs, 0, iters, maxC, maxS)

-----------------------------------------------------------------------------
(* Collision responders                                                    *)

\* a component that is not a number: a marker value far outside every
\* coordinate the simulation reaches, never used in arithmetic
NaN == -(2 ^ 30)
NaNVec == <<NaN, NaN, NaN>>

\* glm::normalize: v * inversesqrt(dot(v, v)), which is 0 * inf for the zero
\* vector
Normalize(v) ==
    LET len == Length(v)
    IN  IF len = 0 THEN NaNVec ELSE VDivS(v, len)

\* a loop body that also moves a particle lying exactly on the surface
SphereParticleOnSurface(p, center, radius) ==
    LET dir  == VSub(p.position, center)
        dist == Length(dir)
    IN  IF dist <= radius
        THEN IF dist = 0
             THEN [p EXCEPT !.position = NaNVec]
             ELSE [p EXCEPT !.position =
                       VAdd(center, VScale(Normalize(dir), radius + EPS_SPHERE))]
        ELSE p

\* body of the loop of Cloth::handleSphereCollision
SphereParticle(p, center, radius) ==
    LET dir  == VSub(p.position, center)
        dist == Length(dir)
    IN  IF dist < radius
        THEN IF dist = 0
             THEN [p EXCEPT !.position = NaNVec]
             ELSE [p EXCEPT !.position =
                       VAdd(center, VScale(Normalize(dir), radius + EPS_SPHERE))]
        ELSE p

\* Cloth::handleSphereCollision
SphereCollision(ps, center, radius) ==
    [i \in DOMAIN ps |-> SphereParticle(ps[i], center, radius)]

\* a pair body that splits the correction without looking at the pins
SelfPairIgnorePins(ps, i, j, minDist) ==
    LET pa    == ps[i]
        pb    == ps[j]
        delta == VSub(pb.position, pa.position)
        dist  == Length(delta)
    IN  IF dist < minDist /\ dist > EPS_LEN
        THEN LET correction == VScale(delta, Div(dist - minDist, dist))
             IN  [ps EXCEPT ![i].position = VAdd(pa.position, VScale(correction, HALF)),
                            ![i].velocity = ZeroVec,
                            ![j].position = VSub(pb.position, VScale(correction, HALF)),
                            ![j].velocity = ZeroVec]
        ELSE ps

\* a pair step that treats coincident particles as a contact it cannot
\* separate: it leaves them in place and stops them
SelfPairStopCoincident(ps, i, j, minDist) ==
    LET pa    == ps[i]
        pb    == ps[j]
        delta == VSub(pb.position, pa.position)
        dist  == Length(delta)
    IN  IF dist < minDist /\ dist > EPS_LEN
        THEN LET correction == VScale(delta, Div(dist - minDist, dist))
                 posA == IF ~pa.pinned THEN VAdd(pa.position, VScale(correction, HALF))
                         ELSE pa.position
                 posB == IF ~pb.pinned THEN VSub(pb.position, VScale(correction, HALF))
                         ELSE pb.position
             IN  [ps EXCEPT ![i].position = posA, ![i].velocity = ZeroVec,
                            ![j].position = posB, ![j].velocity = ZeroVec]
        ELSE IF dist < minDist
        THEN [ps EXCEPT ![i].velocity = ZeroVec, ![j].velocity = ZeroVec]
        ELSE ps

\* body of the inner loop of Cloth::handleSelfCollisions for the pair (i, j)
SelfPair(ps, i, j, minDist) ==
    LET pa    == ps[i]
        pb    == ps[j]
        delta == VSub(pb.position, pa.position)
        dist  == Length(delta)
    IN  IF dist < minDist /\ dist > EPS_LEN
        THEN LET correction == VScale(delta, Div(dist - minDist, dist))
                 posA == IF ~pa.pinned THEN VAdd(pa.position, VScale(correction, HALF))
                         ELSE pa.position
                 posB == IF ~pb.pinned THEN VSub(pb.position, VScale(correction, HALF))
                         ELSE pb.position
             IN  [ps EXCEPT ![i].position = posA, ![i].velocity = ZeroVec,
                            ![j].position = posB, ![j].velocity = ZeroVec]
        ELSE ps

\* the inner loop over j for a fixed i
RECURSIVE SelfInner(_, _, _, _, _)
SelfInner(ps, i, j, n, minDist) ==
    IF j >= n THEN ps
    ELSE LET next == SelfPair(ps, i, j, minDist)
         IN  IF DOMAIN next = DOMAIN ps
             THEN SelfInner(next, i, j + 1, n, minDist)
             ELSE next

\* the outer loop over i; each inner loop is evaluated before the next starts
RECURSIVE SelfLoop(_, _, _, _)
SelfLoop(ps, i, n, minDist) ==
    IF i >= n THEN ps
    ELSE LET next == SelfInner(ps, i, i + 1, n, minDist)
         IN  IF DOMAIN next = DOMAIN ps
             THEN SelfLoop(next, i + 1, n, minDist)
             ELSE next

\* Cloth::handleSelfCollisions
SelfCollisions(ps, n, sp) ==
    LET marbleRadius == Mul(sp, HALF)
        minDist      == 2 * marbleRadius
    IN  SelfLoop(ps, 0, n, minDist)

-----------------------------------------------------------------------------
(* Inputs tried by the model                                               *)

\* the member initialisers of Cloth.h
DefaultParams ==
    [gravity         |-> DEFAULT_GRAVITY,
     airDamping      |-> DEFAULT_AIR_DAMPING,
     springStiffness |-> DEFAULT_SPRING_STIFFNESS,
     bendStiffness   |-> DEFAULT_BEND_STIFFNESS,
     springDamping   |-> DEFAULT_SPRING_DAMPING,
     maxStretch      |-> DEFAULT_MAX_STRETCH,
     maxCompress     |-> DEFAULT_MAX_COMPRESS,
     constraintIters |-> DEFAULT_CONSTRAINT_ITERS,
     windEnabled     |-> FALSE,
     windStrength    |-> DEFAULT_WIND_STRENGTH,
     windDirection   |-> DEFAULT_WIND_DIRECTION]

\* parameter settings a caller writes into the public fields between calls
ParamSettings ==
    { DefaultParams,
      [DefaultParams EXCEPT !.gravity = ZeroVec],
      [DefaultParams EXCEPT !.windEnabled = TRUE],
      [DefaultParams EXCEPT !.windEnabled = TRUE, !.windStrength = 2000,
                            !.windDirection = <<1000, 0, 0>>],
      [DefaultParams EXCEPT !.springStiffness = 0, !.bendStiffness = 0,
                            !.springDamping = 0, !.airDamping = 0],
      [DefaultParams EXCEPT !.springStiffness = 200000, !.bendStiffness = 20000,
                            !.maxStretch = 1300, !.maxCompress = 700,
                            !.constraintIters = 1],
      [DefaultParams EXCEPT !.constraintIters = 0] }

\* constructor and call arguments
Spacings == {1000, 2000}
DTs == {50, 100}
Spheres == { [center |-> <<100, 200, 0>>, radius |-> 600],
             [center |-> <<-400, 900, 300>>, radius |-> 1500],
             [center |-> <<0, 400, 0>>, radius |-> 600] }

-----------------------------------------------------------------------------
(* The simulation object                                                   *)

NumParticles == rows * cols

\* Cloth::Cloth(rows, cols, spacing), with the default member initialisers
Construct(nr, nc, sp) ==
    /\ rows = nr /\ cols = nc /\ spacing = sp
    /\ par = DefaultParams
    /\ globalTime = 0
    /\ particles = BuildParticles(nr, nc, sp)
    /\ springs = BuildSprings(BuildParticles(nr, nc, sp), nr, nc,
                              DefaultParams.springStiffness,
                              DefaultParams.bendStiffness,
                              DefaultParams.springDamping)
    /\ lastOp = "construct" /\ lastDt = 0 /\ nOps = 0

Init ==
    \E nr \in 1 .. MaxRows, nc \in 1 .. MaxCols : Construct(nr, nc, 1000)

\* an update that solves the constraints before it integrates
UpdateResultConstraintsFirst(ps, sprs, pr, dt, gt) ==
    Integrate(
        SatisfyConstraints(
            ApplyForces(ps, sprs, pr.gravity, pr.airDamping, pr.windEnabled,
                        pr.windStrength, pr.windDirection, gt),
            sprs, pr.constraintIters, pr.maxCompress, pr.maxStretch), dt)

\* the particle array Cloth::update(deltaTime) leaves: applyForces (which
\* reads globalTime after update has advanced it to gt), integrate,
\* satisfyConstraints
UpdateResult(ps, sprs, pr, dt, gt) ==
    SatisfyConstraints(
        Integrate(ApplyForces(ps, sprs, pr.gravity, pr.airDamping, pr.windEnabled,
                              pr.windStrength, pr.windDirection, gt), dt),
        sprs, pr.constraintIters, pr.maxCompress, pr.maxStretch)

\* Cloth::reset on the particle array and on the spring list
ResetParticles == BuildParticles(rows, cols, spacing)
ResetSprings ==
    BuildSprings(BuildParticles(rows, cols, spacing), rows, cols,
                 par.springStiffness, par.bendStiffness, par.springDamping)

Step(op) == lastOp' = op /\ nOps' = nOps + 1

\* an update that measures the rest lengths again on the moved particles
UpdateRemeasure(dt) ==
    /\ globalTime' = globalTime + dt
    /\ particles' = UpdateResult(particles, springs, par, dt, globalTime + dt)
    /\ springs' = [k \in 1 .. Len(springs) |->
                      [springs[k] EXCEPT !.restLength =
                           Length(VSub(particles'[springs[k].b].position,
                                       particles'[springs[k].a].position))]]
    /\ lastDt' = dt
    /\ Step("update")
    /\ UNCHANGED <<geom, par>>

\* an update that advances the time once before and once after the stages
UpdateAdvanceTwice(dt) ==
    /\ globalTime' = globalTime + dt + dt
    /\ particles' = UpdateResult(particles, springs, par, dt, globalTime + dt)
    /\ lastDt' = dt
    /\ Step("update")
    /\ UNCHANGED <<geom, springs, par>>

\* Cloth::update
Update(dt) ==
    /\ globalTime' = globalTime + dt
    /\ particles' = UpdateResult(particles, springs, par, dt, globalTime + dt)
    /\ lastDt' = dt
    /\ Step("update")
    /\ UNCHANGED <<geom, springs, par>>

\* Cloth::reset
Reset ==
    /\ particles' = ResetParticles
    /\ springs' = ResetSprings
    /\ Step("reset")
    /\ UNCHANGED <<geom, par, globalTime, lastDt>>

\* Cloth::pin
Pin(r, c) ==
    /\ particles' = PinAt(particles, idx(r, c, cols))
    /\ Step("pin")
    /\ UNCHANGED <<geom, springs, par, globalTime, lastDt>>

\* Cloth::unpinAll
UnpinAll ==
    /\ particles' = [i \in DOMAIN particles |-> [particles[i] EXCEPT !.pinned = FALSE]]
    /\ Step("unpinAll")
    /\ UNCHANGED <<geom, springs, par, globalTime, lastDt>>

\* Cloth::handleSphereCollision, for a centre that is no particle's position
HandleSphereCollision(center, radius) ==
    /\ \A i \in DOMAIN particles : particles[i].position # center
    /\ particles' = SphereCollision(particles, center, radius)
    /\ Step("sphere")
    /\ UNCHANGED <<geom, springs, par, globalTime, lastDt>>

\* Cloth::handleSelfCollisions
HandleSelfCollisions ==
    /\ particles' = SelfCollisions(particles, NumParticles, spacing)
    /\ Step("self")
    /\ UNCHANGED <<geom, springs, par, globalTime, lastDt>>

\* the caller writes the public parameter fields
SetParams(p) ==
    /\ p # par
    /\ par' = p
    /\ Step("set")
    /\ UNCHANGED <<geom, particles, springs, globalTime, lastDt>>

Next ==
    /\ nOps < MaxOps
    /\ \/ \E dt \in DTs : Update(dt)
       \/ Reset
       \/ \E r \in 0 .. rows - 1, c \in 0 .. cols - 1 : Pin(r, c)
       \/ UnpinAll
       \/ \E s \in Spheres : HandleSphereCollision(s.center, s.radius)
       \/ HandleSelfCollisions
       \/ \E p \in ParamSettings : SetParams(p)

Spec == Init /\ [][Next]_vars

-----------------------------------------------------------------------------
(* Construction and reset over larger grids and several spacings           *)

InitBuild ==
    \E nr \in 1 .. MaxBuildDim, nc \in 1 .. MaxBuildDim, sp \in Spacings :
        Construct(nr, nc, sp)

NextBuild ==
    /\ nOps < MaxBuildOps
    /\ \/ \E dt \in DTs : Update(dt)
       \/ Reset
       \/ \E r \in 0 .. rows - 1, c \in 0 .. cols - 1 : Pin(r, c)
       \/ UnpinAll
       \/ \E p \in ParamSettings : SetParams(p)

SpecBuild == InitBuild /\ [][NextBuild]_vars

-----------------------------------------------------------------------------
(* A 2 x 2 cloth hanging from one corner                                   *)

\* Cloth::unpinAll on a particle array
Unpinned(ps) == [i \in DOMAIN ps |-> [ps[i] EXCEPT !.pinned = FALSE]]

\* Cloth(2, 2, sp); unpinAll(); pin(0, 0)
InitHang ==
    \E sp \in Spacings :
        /\ rows = 2 /\ cols = 2 /\ spacing = sp
        /\ par = DefaultParams
        /\ globalTime = 0
        /\ particles = PinAt(Unpinned(BuildParticles(2, 2, sp)), idx(0, 0, 2))
        /\ springs = BuildSprings(BuildParticles(2, 2, sp), 2, 2,
                                  DefaultParams.springStiffness,
                                  DefaultParams.bendStiffness,
                                  DefaultParams.springDamping)
        /\ lastOp = "pin" /\ lastDt = 0 /\ nOps = 0

NextHang ==
    /\ nOps < MaxHangSteps
    /\ \E dt \in DTs : Update(dt)

SpecHang == InitHang /\ [][NextHang]_vars

-----------------------------------------------------------------------------
(* Free fall: a 1 x 2 cloth with no pins, no spring force and no drag       *)

FreeFallParams ==
    [DefaultParams EXCEPT !.springStiffness = 0, !.bendStiffness = 0,
                          !.springDamping = 0, !.airDamping = 0]

\* Cloth(1, 2, sp); the stiffness and damping fields zeroed; reset();
\* unpinAll()
InitFall ==
    \E sp \in Spacings :
        /\ rows = 1 /\ cols = 2 /\ spacing = sp
        /\ par = FreeFallParams
        /\ globalTime = 0
        /\ particles = Unpinned(BuildParticles(1, 2, sp))
        /\ springs = BuildSprings(BuildParticles(1, 2, sp), 1, 2,
                                  FreeFallParams.springStiffness,
                                  FreeFallParams.bendStiffness,
                                  FreeFallParams.springDamping)
        /\ lastOp = "unpinAll" /\ lastDt = 0 /\ nOps = 0

NextFall ==
    /\ nOps < MaxFallSteps
    /\ \E dt \in DTs : Update(dt)

SpecFall == InitFall /\ [][NextFall]_vars

-----------------------------------------------------------------------------
(* A sphere centred exactly on a particle                                  *)

SphereRadii == {s.radius : s \in Spheres}

\* every position is a vector of numbers
AllNumbers(ps) == \A i \in DOMAIN ps : ps[i].position # NaNVec

\* Cloth::handleSphereCollision(particles[i].position, radius)
HandleSphereCollisionAt(i, radius) ==
    /\ particles' = SphereCollision(particles, particles[i].position, radius)
    /\ Step("sphere")
    /\ UNCHANGED <<geom, springs, par, globalTime, lastDt>>

\* calls are followed as long as every position is a number
NextCentre ==
    /\ nOps < MaxCentreOps
    /\ AllNumbers(particles)
    /\ \/ \E dt \in DTs : Update(dt)
       \/ UnpinAll
       \/ \E i \in DOMAIN particles, radius \in SphereRadii :
              HandleSphereCollisionAt(i, radius)

SpecCentre == Init /\ [][NextCentre]_vars

-----------------------------------------------------------------------------
(* Cloths with coincident particles                                        *)

\* limits written into the public fields that pull every spring to length 0
CollapseParams == [DefaultParams EXCEPT !.maxStretch = 0, !.maxCompress = 0]

\* spacings of the folded cloths: all particles on one point, or a unit grid
FoldSpacings == {0, SCALE}

InitFold ==
    \E nr \in 1 .. MaxRows, nc \in 1 .. MaxCols, sp \in FoldSpacings :
        Construct(nr, nc, sp)

NextFold ==
    /\ nOps < MaxFoldOps
    /\ \/ \E dt \in DTs : Update(dt)
       \/ \E r \in 0 .. rows - 1, c \in 0 .. cols - 1 : Pin(r, c)
       \/ UnpinAll
       \/ HandleSelfCollisions
       \/ SetParams(CollapseParams)

SpecFold == InitFold /\ [][NextFold]_vars

-----------------------------------------------------------------------------
(* Cloths without load: no gravity, no wind, limits around the rest length *)

RestSettings ==
    { [DefaultParams EXCEPT !.gravity = ZeroVec],
      [DefaultParams EXCEPT !.gravity = ZeroVec, !.maxStretch = SCALE,
                            !.maxCompress = SCALE],
      [DefaultParams EXCEPT !.gravity = ZeroVec, !.maxStretch = 1300,
                            !.maxCompress = 700, !.springStiffness = 200000,
                            !.windStrength = 2000, !.airDamping = 0] }

\* a cloth right after construction and the write of its parameter fields
InitRest ==
    \E nr \in 1 .. MaxRows, nc \in 1 .. MaxCols, sp \in Spacings, p \in RestSettings :
        /\ rows = nr /\ cols = nc /\ spacing = sp
        /\ par = p
        /\ globalTime = 0
        /\ particles = BuildParticles(nr, nc, sp)
        /\ springs = BuildSprings(BuildParticles(nr, nc, sp), nr, nc,
                                  DefaultParams.springStiffness,
                                  DefaultParams.bendStiffness,
                                  DefaultParams.springDamping)
        /\ lastOp = "set" /\ lastDt = 0 /\ nOps = 0

NextRest ==
    /\ nOps < MaxRestOps
    /\ \/ \E dt \in DTs : Update(dt)
       \/ Reset
       \/ \E r \in 0 .. rows - 1, c \in 0 .. cols - 1 : Pin(r, c)
       \/ UnpinAll
       \/ \E p \in RestSettings : SetParams(p)

SpecRest == InitRest /\ [][NextRest]_vars

-----------------------------------------------------------------------------
(* Pinning and releasing a cloth in motion                                 *)

InitPin == \E nc \in 1 .. MaxPinCols : Construct(2, nc, SCALE)

NextPin ==
    /\ nOps < MaxPinOps
    /\ \/ \E dt \in DTs : Update(dt)
       \/ \E r \in 0 .. rows - 1, c \in 0 .. cols - 1 : Pin(r, c)
       \/ UnpinAll

SpecPin == InitPin /\ [][NextPin]_vars

-----------------------------------------------------------------------------
(* Quantities the properties speak of                                      *)

\* current length of spring k
SpringLen(k) ==
    Length(VSub(particles[springs[k].b].position, particles[springs[k].a].position))

MinLen(k) == Mul(springs[k].restLength, par.maxCompress)
MaxLen(k) == Mul(springs[k].restLength, par.maxStretch)

BothPinned(k) == particles[springs[k].a].pinned /\ particles[springs[k].b].pinned

Built == lastOp \in {"construct", "reset"}

\* sqrt(2), to the unit
SQRT2 == ISqrt(2 * SCALE * SCALE)

-----------------------------------------------------------------------------
(* C1  Pin invariant.  A call of update(dt) leaves position and            *)
(* prevPosition of every particle that is pinned at the call exactly as    *)
(* they were, whatever forces, constraints and parameters are in effect.   *)

C1_PinInvariant ==
    [][lastOp' = "update" /\ nOps' = nOps + 1 =>
          \A i \in DOMAIN particles :
              particles[i].pinned =>
                  /\ particles'[i].position = particles[i].position
                  /\ particles'[i].prevPosition = particles[i].prevPosition
                  /\ particles'[i].pinned]_vars

\* after an update, a spring between a pinned and a moving free particle
\* sits at one of its length limits: the solver corrected it against the pin
C1_Witness ==
    /\ lastOp = "update"
    /\ \E k \in 1 .. Len(springs) :
          /\ particles[springs[k].a].pinned # particles[springs[k].b].pinned
          /\ SpringLen(k) # springs[k].restLength
          /\ Abs(SpringLen(k) - MinLen(k)) <= 1 \/ Abs(SpringLen(k) - MaxLen(k)) <= 1
          /\ \E e \in {springs[k].a, springs[k].b} :
                ~particles[e].pinned /\ particles[e].position # particles[e].prevPosition

-----------------------------------------------------------------------------
(* C2  Constraint bound.  As stated: after an update whose constraint      *)
(* iterations sufficed (the solver has settled: no spring would be         *)
(* corrected by a further pass), every spring has its length within        *)
(* [restLength*maxCompress, restLength*maxStretch], up to rounding.        *)

Settled ==
    \A k \in 1 .. Len(springs) :
        ConstraintStep(particles, springs[k], par.maxCompress, par.maxStretch) = particles

InBand(k) ==
    /\ SpringLen(k) >= MinLen(k) - Tol
    /\ SpringLen(k) <= MaxLen(k) + Tol

C2_AllSpringsInBand ==
    lastOp = "update" /\ Settled =>
        \A k \in 1 .. Len(springs) : InBand(k)

(* C2, as the code has it: the bound holds for every spring that has an    *)
(* unpinned endpoint and is not degenerate (length above the 1e-6 guard);  *)
(* a spring between two pinned particles, or one of zero length, is left   *)
(* as it is by every pass.                                                 *)

C2_ConstraintBound ==
    lastOp = "update" /\ Settled =>
        \A k \in 1 .. Len(springs) :
            ~BothPinned(k) /\ SpringLen(k) > EPS_LEN => InBand(k)

\* a converged update that left a spring with a free endpoint on a limit
C2_Witness ==
    /\ lastOp = "update" /\ Settled /\ par.constraintIters > 0
    /\ \E k \in 1 .. Len(springs) :
          /\ ~BothPinned(k) /\ SpringLen(k) > EPS_LEN
          /\ SpringLen(k) # springs[k].restLength
          /\ Abs(SpringLen(k) - MinLen(k)) <= 1 \/ Abs(SpringLen(k) - MaxLen(k)) <= 1

-----------------------------------------------------------------------------
(* C3  Pinned-corner hang.  On a 2 x 2 grid with only particle (0,0)       *)
(* pinned, after any number of update calls every spring (each has an      *)
(* unpinned endpoint) is no longer than maxStretch*restLength, up to       *)
(* rounding.                                                               *)

C3_HangWithinStretch ==
    \A k \in 1 .. Len(springs) : SpringLen(k) <= MaxLen(k) + Tol

-----------------------------------------------------------------------------
(* C5  reset() restores a fresh construction.  Right after reset(), the    *)
(* next update(dt) yields the particle state that the same update yields   *)
(* on a freshly constructed cloth of the same rows, cols and spacing       *)
(* carrying the same current parameter values.                             *)

FreshParticles == BuildParticles(rows, cols, spacing)

FreshSprings ==
    BuildSprings(FreshParticles, rows, cols,
                 par.springStiffness, par.bendStiffness, par.springDamping)

C5_ResetEqualsFresh ==
    lastOp = "reset" =>
        \A dt \in DTs :
            UpdateResult(particles, springs, par, dt, globalTime + dt)
                = UpdateResult(FreshParticles, FreshSprings, par, dt, 0 + dt)

-----------------------------------------------------------------------------
(* C6  Initial state.  Right after construction and right after reset()    *)
(* there are exactly rows*cols particles; the particle of cell (r, c) is   *)
(* at x = (c - (cols-1)/2)*spacing, y = (rows-1-r)*spacing, z = 0, at rest *)
(* (prevPosition = position, zero velocity and force), of mass 1, and it   *)
(* is pinned exactly when r = 0 and c is 0 or cols-1.                      *)

ExpectedPosition(r, c) ==
    <<RDiv((2 * c - (cols - 1)) * spacing, 2), (rows - 1 - r) * spacing, 0>>

-----------------------------------------------------------------------------
(* C7  Spring topology.  The list built for a rows x cols grid holds, for  *)
(* every cell (r, c), a Structural spring to (r, c+1) and (r+1, c), a      *)
(* Shear spring to (r+1, c+1) and (r+1, c-1) and a Bending spring to       *)
(* (r, c+2) and (r+2, c), each exactly when the target cell is in bounds,  *)
(* and nothing else; Structural and Shear springs carry springStiffness    *)
(* and Bending springs bendStiffness as set when the list was built.       *)

Offsets ==
    { <<0, 1, "Structural">>, <<1, 0, "Structural">>,
      <<1, 1, "Shear">>, <<1, -1, "Shear">>,
      <<0, 2, "Bending">>, <<2, 0, "Bending">> }

ExpectedSprings ==
    { [a |-> r * cols + c,
       b |-> (r + o[1]) * cols + (c + o[2]),
       type |-> o[3],
       stiffness |-> IF o[3] = "Bending" THEN par.bendStiffness
                     ELSE par.springStiffness] :
        <<r, c, o>> \in
           { t \in (0 .. rows - 1) \X (0 .. cols - 1) \X Offsets :
                 /\ t[1] + t[3][1] \in 0 .. rows - 1
                 /\ t[2] + t[3][2] \in 0 .. cols - 1 } }

SpringShape(k) ==
    [a |-> springs[k].a, b |-> springs[k].b, type |-> springs[k].type,
     stiffness |-> springs[k].stiffness]

-----------------------------------------------------------------------------
(* C8  In every reachable state no spring joins a particle to itself, both *)
(* indices of every spring lie in 0 .. rows*cols-1, and no unordered pair  *)
(* of particles is joined by two springs.                                  *)

C8_SpringsWellFormed ==
    /\ \A k \in 1 .. Len(springs) :
          /\ springs[k].a # springs[k].b
          /\ springs[k].a \in 0 .. (rows * cols - 1)
          /\ springs[k].b \in 0 .. (rows * cols - 1)
    /\ \A k, l \in 1 .. Len(springs) :
          k # l => {springs[k].a, springs[k].b} # {springs[l].a, springs[l].b}

\* a rebuilt list with springs of all three kinds
C8_Witness ==
    /\ lastOp = "reset"
    /\ \A t \in {"Structural", "Shear", "Bending"} :
          \E k \in 1 .. Len(springs) : springs[k].type = t

-----------------------------------------------------------------------------
(* C9  Rest-length invariant.  Right after construction and right after    *)
(* reset() the rest length of every spring is the distance between the     *)
(* current positions of its endpoints: spacing for a Structural spring,    *)
(* spacing*sqrt(2) (to the unit) for a Shear spring, 2*spacing for a       *)
(* Bending spring.                                                         *)

C9_RestLength ==
    Built =>
        \A k \in 1 .. Len(springs) :
            /\ springs[k].restLength = SpringLen(k)
            /\ springs[k].type = "Structural" => springs[k].restLength = spacing
            /\ springs[k].type = "Shear" =>
                   Abs(springs[k].restLength - Mul(spacing, SQRT2)) <= 1
            /\ springs[k].type = "Bending" => springs[k].restLength = 2 * spacing

\* a reset after the particles had moved away from the grid
C9_Witness ==
    /\ lastOp = "reset" /\ globalTime > 0
    /\ \E k \in 1 .. Len(springs) : springs[k].type = "Shear"

-----------------------------------------------------------------------------
(* C10  Free fall.  As stated: from rest, with no pins, no spring force,   *)
(* no drag and no wind, a single update(dt) displaces both particles of a  *)
(* 1 x 2 cloth straight down by about 0.5 * 9.8 * dt^2.                    *)

\* 9.8 * dt^2
GravityStep(dt) == Mul(Mul(-DEFAULT_GRAVITY[2], dt), dt)

FirstFallStep == lastOp = "update" /\ nOps = 1

\* what particle i dropped by in the update just made
Drop(i) == particles[i].prevPosition[2] - particles[i].position[2]

C10_FreeFallHalf ==
    FirstFallStep =>
        \A i \in DOMAIN particles :
            Abs(Drop(i) - Mul(HALF, GravityStep(lastDt))) <= Tol

(* C10, as the code has it: the Verlet step from rest (prevPosition =      *)
(* position) adds the whole acceleration term, so both particles drop by   *)
(* 9.8 * dt^2, twice the stated amount, with x and z unchanged.            *)

C10_FreeFall ==
    FirstFallStep =>
        \A i \in DOMAIN particles :
            /\ particles[i].prevPosition = ExpectedPosition(0, i)
            /\ Abs(Drop(i) - GravityStep(lastDt)) <= 1
            /\ particles[i].position[1] = particles[i].prevPosition[1]
            /\ particles[i].position[3] = particles[i].prevPosition[3]

\* the first update of the free cloth, both particles having dropped
C10_Witness ==
    /\ FirstFallStep
    /\ \A i \in DOMAIN particles : ~particles[i].pinned /\ Drop(i) > 0

-----------------------------------------------------------------------------
(* C11  Sphere push-out at the centre.  When handleSphereCollision is      *)
(* called with the centre exactly on particle i, that particle ends at a   *)
(* well-defined position whose distance from the centre is radius + eps.   *)

C11_CentrePushOut ==
    [][\A i \in DOMAIN particles, radius \in SphereRadii :
          /\ lastOp' = "sphere"
          /\ particles' = SphereCollision(particles, particles[i].position, radius)
          => /\ particles'[i].position # NaNVec
             /\ Length(VSub(particles'[i].position, particles[i].position))
                    = radius + EPS_SPHERE]_vars

-----------------------------------------------------------------------------
(* C12  handleSphereCollision(center, radius) moves every particle that is *)
(* strictly closer to center than radius, pinned or not, radially to the   *)
(* distance radius + eps from center; a particle at distance >= radius     *)
(* keeps its position; prevPosition, velocity, force, mass and the pinned  *)
(* flag of every particle are unchanged.                                   *)

\* q is p pushed out of the sphere along the ray from center through p
PushedOut(p, q, center, radius) ==
    LET dir  == VSub(p.position, center)
        dist == Length(dir)
    IN  \A c \in 1 .. 3 :
            Abs(q.position[c] - center[c]
                  - RDiv(dir[c] * (radius + EPS_SPHERE), dist)) <= 2

SphereEffect(center, radius) ==
    \A i \in DOMAIN particles :
        LET p == particles[i]
            q == particles'[i]
        IN  /\ IF Length(VSub(p.position, center)) < radius
               THEN PushedOut(p, q, center, radius)
               ELSE q.position = p.position
            /\ q.prevPosition = p.prevPosition
            /\ q.velocity = p.velocity
            /\ q.force = p.force
            /\ q.mass = p.mass
            /\ q.pinned = p.pinned

-----------------------------------------------------------------------------
(* C13  Self-collision resolution.  Every pair of particles that           *)
(* handleSelfCollisions finds closer than 2*(spacing/2) and not coincident *)
(* is, when the call returns, 2*(spacing/2) apart (up to rounding) with    *)
(* both velocities zero; pairs with a pinned member and pairs that share   *)
(* a particle with another resolved pair included.                         *)

MinDist == 2 * Mul(spacing, HALF)

\* the pairs the double loop visits before it visits (i, j)
Earlier(i, j) ==
    { q \in (DOMAIN particles) \X (DOMAIN particles) :
          q[1] < q[2] /\ (q[1] < i \/ (q[1] = i /\ q[2] < j)) }

\* the particle array after the pairs of a set were visited in loop order
RECURSIVE ResolveInOrder(_, _)
ResolveInOrder(ps, pairs) ==
    IF pairs = {} THEN ps
    ELSE LET first == CHOOSE q \in pairs :
                          \A t \in pairs : q[1] < t[1] \/ (q[1] = t[1] /\ q[2] <= t[2])
             next  == SelfPair(ps, first[1], first[2], MinDist)
             rest  == pairs \ {first}
         IN  IF DOMAIN next = DOMAIN ps /\ Cardinality(rest) < Cardinality(pairs)
             THEN ResolveInOrder(next, rest)
             ELSE next

\* the loop, on reaching (i, j), finds the pair too close and not coincident
FoundClose(i, j) ==
    LET before == ResolveInOrder(particles, Earlier(i, j))
        dist   == Length(VSub(before[j].position, before[i].position))
    IN  dist < MinDist /\ dist > EPS_LEN

C13_SelfCollisionSeparates ==
    [][lastOp' = "self" =>
          \A i, j \in DOMAIN particles :
              i < j /\ FoundClose(i, j) =>
                  /\ Abs(Length(VSub(particles'[j].position, particles'[i].position))
                           - MinDist) <= Tol
                  /\ particles'[i].velocity = ZeroVec
                  /\ particles'[j].velocity = ZeroVec]_vars

-----------------------------------------------------------------------------
(* C14  handleSelfCollisions respects pin state: a call never changes the  *)
(* position or prevPosition of a pinned particle, and changes no           *)
(* particle's pinned flag, prevPosition, force or mass.                    *)

C14_SelfCollisionFrame ==
    [][lastOp' = "self" =>
          /\ DOMAIN particles' = DOMAIN particles
          /\ \A i \in DOMAIN particles :
                /\ particles[i].pinned => particles'[i].position = particles[i].position
                /\ particles'[i].prevPosition = particles[i].prevPosition
                /\ particles'[i].pinned = particles[i].pinned
                /\ particles'[i].force = particles[i].force
                /\ particles'[i].mass = particles[i].mass]_vars

\* after a call that resolved a pair with one pinned member: the free member
\* was moved and stopped, and the two are still closer than the minimum
C14_Witness ==
    /\ lastOp = "self"
    /\ \E i, j \in DOMAIN particles :
          /\ particles[i].pinned /\ ~particles[j].pinned
          /\ Length(VSub(particles[j].position, particles[i].position)) < MinDist
          /\ particles[j].position # particles[j].prevPosition
          /\ particles[j].velocity = ZeroVec

-----------------------------------------------------------------------------
(* C15  Every update(dt) runs force accumulation, then integration, then   *)
(* constraint solving, each once and in that order, and nothing else: the  *)
(* forces it leaves are those accumulated on the state before the call,    *)
(* velocity and prevPosition are those of one integration with these       *)
(* forces, and the positions are the integrated ones after the constraint  *)
(* passes; no collision responder has run.                                 *)

\* stage 1 on the state before the call (with the time the call has set)
Accumulated ==
    ApplyForces(particles, springs, par.gravity, par.airDamping, par.windEnabled,
                par.windStrength, par.windDirection, globalTime')

C15_UpdateOrder ==
    [][lastOp' = "update" =>
          LET forced      == Accumulated
              \* stage 2 on the result of stage 1
              integrated  == Integrate(forced, lastDt')
              \* stage 3 on the result of stage 2
              constrained == SatisfyConstraints(integrated, springs,
                                                par.constraintIters,
                                                par.maxCompress, par.maxStretch)
          IN  /\ \A i \in DOMAIN particles :
                    /\ particles'[i].force = forced[i].force
                    /\ particles'[i].velocity = integrated[i].velocity
                    /\ particles'[i].prevPosition = integrated[i].prevPosition
                    /\ ~particles[i].pinned =>
                           particles'[i].prevPosition = particles[i].position
              /\ particles' = constrained]_vars

\* after a second or later update: forces are in effect, a free particle has
\* moved, and the constraint passes have changed what integration produced
\* (the cached velocity no longer matches the positions)
C15_Witness ==
    /\ lastOp = "update" /\ nOps >= 2 /\ par.constraintIters > 0
    /\ \E i \in DOMAIN particles :
          /\ ~particles[i].pinned
          /\ particles[i].force # ZeroVec
          /\ particles[i].position # particles[i].prevPosition
    /\ \E k \in 1 .. Len(springs) :
          /\ ~BothPinned(k)
          /\ SpringLen(k) \in {MinLen(k), MaxLen(k)}
          /\ SpringLen(k) # springs[k].restLength

-----------------------------------------------------------------------------
(* C16  pin(row, col), for a cell of the grid, sets the pinned flag of the *)
(* particle at index row*cols + col and changes nothing else; unpinAll()   *)
(* clears every pinned flag and changes nothing else: positions,           *)
(* prevPositions, velocities, forces, masses, the spring list, the         *)
(* parameters and the accumulated time stay as they were.                  *)

\* all fields but the pinned flag are kept
SameButPins ==
    /\ DOMAIN particles' = DOMAIN particles
    /\ \A i \in DOMAIN particles :
          /\ particles'[i].position = particles[i].position
          /\ particles'[i].prevPosition = particles[i].prevPosition
          /\ particles'[i].velocity = particles[i].velocity
          /\ particles'[i].force = particles[i].force
          /\ particles'[i].mass = particles[i].mass
    /\ springs' = springs /\ par' = par /\ globalTime' = globalTime
    /\ geom' = geom

C16_PinFrame ==
    [][/\ lastOp' = "pin" =>
             /\ SameButPins
             /\ \E r \in 0 .. rows - 1, c \in 0 .. cols - 1 :
                   \A i \in DOMAIN particles :
                       particles'[i].pinned
                           <=> (particles[i].pinned \/ i = r * cols + c)
       /\ lastOp' = "unpinAll" =>
             /\ SameButPins
             /\ \A i \in DOMAIN particles : ~particles'[i].pinned]_vars

\* a particle that was moving has just been pinned, and still has its
\* velocity
C16_Witness ==
    /\ lastOp = "pin"
    /\ \E i \in DOMAIN particles :
          /\ particles[i].pinned
          /\ particles[i].velocity # ZeroVec
          /\ particles[i].position # particles[i].prevPosition

-----------------------------------------------------------------------------
(* C17  Runtime tuning.  A value written to any public parameter field     *)
(* between two update calls is the value the next update works with,       *)
(* without a reset(): the update computes with the springs as if they      *)
(* carried the current springStiffness, bendStiffness and springDamping,   *)
(* and with the current gravity, airDamping, limits, iteration count and   *)
(* wind settings.                                                          *)

\* the spring list with the current values of the stiffness and damping
\* fields
Retuned ==
    [k \in 1 .. Len(springs) |->
        [springs[k] EXCEPT
            !.stiffness = IF springs[k].type = "Bending" THEN par.bendStiffness
                          ELSE par.springStiffness,
            !.damping = par.springDamping]]

C17_TuningTakesEffect ==
    [][lastOp' = "update" =>
          particles' = UpdateResult(particles, Retuned, par, lastDt', globalTime')]_vars

-----------------------------------------------------------------------------
(* C18  The spring list is immutable after construction: no call other     *)
(* than reset() (update, pin, unpinAll, the collision responders, writes   *)
(* to the parameter fields) adds, removes, reorders or modifies a spring;  *)
(* in particular restLength is not measured again on moved particles.      *)

C18_SpringsImmutable ==
    [][lastOp' # "reset" => springs' = springs]_vars

\* after a second or later update, with a spring whose endpoints are no
\* longer a rest length apart
C18_Witness ==
    /\ lastOp = "update" /\ nOps >= 2
    /\ \E k \in 1 .. Len(springs) :
          /\ SpringLen(k) # springs[k].restLength
          /\ springs[k].restLength = IF springs[k].type = "Structural" THEN spacing
                                     ELSE IF springs[k].type = "Bending" THEN 2 * spacing
                                     ELSE springs[k].restLength

-----------------------------------------------------------------------------
(* C19  Accumulated time.  globalTime is 0 at construction; every          *)
(* update(dt) adds exactly dt to it, once; no other call changes it (so    *)
(* after n updates it is the sum of their dt values).                      *)

C19_TimeAdvance ==
    /\ globalTime = 0
    /\ [][/\ lastOp' = "update" => globalTime' = globalTime + lastDt'
          /\ lastOp' # "update" => globalTime' = globalTime]_vars

\* two updates of different dt, then a reset: the time is their sum
C19_Witness ==
    /\ lastOp = "reset" /\ nOps = 3
    /\ \E d1, d2 \in DTs : d1 # d2 /\ globalTime = d1 + d2

-----------------------------------------------------------------------------
(* C20  Wind phase.  The wind force of an update call is computed from the *)
(* accumulated time as it stood before the call added its own dt (so the   *)
(* first update after construction uses phase 0).                          *)

C20_WindPhaseBeforeAdvance ==
    [][lastOp' = "update" =>
          particles' = UpdateResult(particles, springs, par, lastDt', globalTime)]_vars

-----------------------------------------------------------------------------
(* C21  Wind force.  With windEnabled, the forces an update accumulates    *)
(* exceed those it would accumulate without wind by                        *)
(* mass * windStrength * sin(2 * globalTime) * windDirection for every     *)
(* unpinned particle, the phase being the same for all; a pinned particle  *)
(* gets no force at all; with windEnabled false the update is the same     *)
(* whatever windStrength and windDirection are.                            *)

\* the forces of the call without the wind term
CalmForces ==
    ApplyForces(particles, springs, par.gravity, par.airDamping, FALSE,
                par.windStrength, par.windDirection, globalTime')

\* mass * windStrength * sin(2 t) * windDirection
WindTerm(mass, t) ==
    LET gust == Mul(Mul(mass, par.windStrength), Sin(2 * t))
    IN  <<Mul(gust, par.windDirection[1]), Mul(gust, par.windDirection[2]),
          Mul(gust, par.windDirection[3])>>

\* other wind settings a caller could have written
OtherWind == [par EXCEPT !.windStrength = 7 * SCALE, !.windDirection = <<600, 0, -800>>]

-----------------------------------------------------------------------------
(* C22  satisfyConstraints is a fixed schedule.  For every iteration count *)
(* the result of satisfyConstraints on the current cloth is the result of  *)
(* exactly max(constraintIters, 0) * (number of springs) single-spring     *)
(* steps, the n-th of which treats spring ((n - 1) mod number of springs)  *)
(* of the construction order; the schedule does not depend on the          *)
(* positions, so the call terminates after that many steps.                *)

\* iteration counts a caller can store in constraintIters
IterCounts == -1 .. 3

\* the first `total` steps of the round-robin schedule, from step n on
RECURSIVE Schedule(_, _, _)
Schedule(ps, n, total) ==
    IF n > total THEN ps
    ELSE LET k    == ((n - 1) % Len(springs)) + 1
             next == ConstraintStep(ps, springs[k], par.maxCompress, par.maxStretch)
         IN  IF DOMAIN next = DOMAIN ps
             THEN Schedule(next, n + 1, total)
             ELSE next

PassCount(iters) == IF iters > 0 THEN iters ELSE 0

C22_FixedSchedule ==
    \A iters \in IterCounts :
        SatisfyConstraints(particles, springs, iters, par.maxCompress, par.maxStretch)
          = Schedule(particles, 1, PassCount(iters) * Len(springs))

\* a cloth with several springs on which every further pass still moves
\* something, while a count of zero or less moves nothing
C22_Witness ==
    /\ Len(springs) >= 3
    /\ LET run(iters) == SatisfyConstraints(particles, springs, iters,
                                            par.maxCompress, par.maxStretch)
       IN  /\ run(-1) = particles /\ run(0) = particles
           /\ run(1) # particles /\ run(2) # run(1) /\ run(3) # run(2)

-----------------------------------------------------------------------------
(* C23  Distribution of a constraint correction.  One solver step on an    *)
(* out-of-band spring moves each endpoint by half of the correction when   *)
(* neither is pinned, moves the unpinned endpoint by the whole correction  *)
(* and leaves the pinned one when exactly one is pinned, and moves neither *)
(* when both are pinned; a step on an in-band spring moves neither         *)
(* endpoint.  Endpoint a moves along the correction, endpoint b against it.*)

WithinBand(k) == MinLen(k) <= SpringLen(k) /\ SpringLen(k) <= MaxLen(k)
OutOfBand(k) == SpringLen(k) > EPS_LEN /\ ~WithinBand(k)

\* delta * ((dist - target) / dist) for spring k in the current state
CorrectionOf(k) ==
    LET delta == VSub(particles[springs[k].b].position, particles[springs[k].a].position)
        dist  == Length(delta)
    IN  VScale(delta, Div(dist - Clamp(dist, MinLen(k), MaxLen(k)), dist))

\* the displacement a solver step on spring k gives particle i
MovedBy(k, i) ==
    VSub(ConstraintStep(particles, springs[k], par.maxCompress, par.maxStretch)[i].position,
         particles[i].position)

PinnedA(k) == particles[springs[k].a].pinned
PinnedB(k) == particles[springs[k].b].pinned

C23_CorrectionDistribution ==
    \A k \in DOMAIN springs :
        LET a == springs[k].a
            b == springs[k].b
            corr == CorrectionOf(k)
        IN  IF ~OutOfBand(k)
            THEN MovedBy(k, a) = ZeroVec /\ MovedBy(k, b) = ZeroVec
            ELSE /\ (~PinnedA(k) /\ ~PinnedB(k)) =>
                        /\ MovedBy(k, a) = VScale(corr, HALF)
                        /\ MovedBy(k, b) = VSub(ZeroVec, VScale(corr, HALF))
                 /\ (~PinnedA(k) /\ PinnedB(k)) =>
                        MovedBy(k, a) = corr /\ MovedBy(k, b) = ZeroVec
                 /\ (PinnedA(k) /\ ~PinnedB(k)) =>
                        MovedBy(k, a) = ZeroVec /\ MovedBy(k, b) = VSub(ZeroVec, corr)
                 /\ (PinnedA(k) /\ PinnedB(k)) =>
                        MovedBy(k, a) = ZeroVec /\ MovedBy(k, b) = ZeroVec

\* a cloth that has, at once, an in-band spring and out-of-band springs with
\* no, one and two pinned endpoints, each with a correction that is not zero
C23_Witness ==
    /\ \E k \in DOMAIN springs : SpringLen(k) > EPS_LEN /\ WithinBand(k)
    /\ \E k \in DOMAIN springs :
          OutOfBand(k) /\ ~PinnedA(k) /\ ~PinnedB(k) /\ VScale(CorrectionOf(k), HALF) # ZeroVec
    /\ \E k \in DOMAIN springs :
          OutOfBand(k) /\ (PinnedA(k) # PinnedB(k)) /\ VScale(CorrectionOf(k), HALF) # CorrectionOf(k)
    /\ \E k \in DOMAIN springs :
          OutOfBand(k) /\ PinnedA(k) /\ PinnedB(k) /\ CorrectionOf(k) # ZeroVec

-----------------------------------------------------------------------------
(* C24  Degeneracy is handled by skipping.  A spring whose endpoints       *)
(* coincide adds no force in applyForces and gets no correction in         *)
(* satisfyConstraints, and a coincident pair is left untouched by          *)
(* handleSelfCollisions: the step of that spring or pair leaves the whole  *)
(* particle array, both particles included, as it was.                     *)

Coincide(i, j) ==
    Length(VSub(particles[j].position, particles[i].position)) <= EPS_LEN

C24_DegenerateSkipped ==
    /\ \A k \in DOMAIN springs :
          Coincide(springs[k].a, springs[k].b) =>
              /\ SpringForceStep(particles, springs[k]) = particles
              /\ ConstraintStep(particles, springs[k], par.maxCompress,
                                par.maxStretch) = particles
    /\ \A i, j \in DOMAIN particles :
          (i < j /\ Coincide(i, j)) => SelfPair(particles, i, j, MinDist) = particles

\* after handleSelfCollisions on a unit-spaced cloth: a spring of non-zero
\* rest length whose endpoints coincide, one of them free and still moving
C24_Witness ==
    /\ lastOp = "self" /\ spacing > 0
    /\ \E k \in DOMAIN springs :
          /\ springs[k].restLength > 0
          /\ Coincide(springs[k].a, springs[k].b)
          /\ \E i \in {springs[k].a, springs[k].b} :
                ~particles[i].pinned /\ particles[i].velocity # ZeroVec

-----------------------------------------------------------------------------
(* C25  Integrator step.  For every unpinned particle and every step size, *)
(* integrate computes newPosition = 2 position - prevPosition              *)
(* + (force / mass) dt dt, sets velocity to (newPosition - prevPosition)   *)
(* / (2 dt) with the prevPosition from before the step, then stores the    *)
(* old position in prevPosition and newPosition in position; force, mass   *)
(* and the pinned flag are unchanged.                                      *)

\* one coordinate of the Verlet position of particle i for step dt
VerletCoord(i, dt, c) ==
    2 * particles[i].position[c] - particles[i].prevPosition[c]
      + Mul(Mul(Div(particles[i].force[c], particles[i].mass), dt), dt)

C25_IntegratorStep ==
    \A dt \in DTs :
        LET after == Integrate(particles, dt)
        IN  \A i \in DOMAIN particles :
                ~particles[i].pinned =>
                    /\ \A c \in 1 .. 3 :
                          /\ after[i].position[c] = VerletCoord(i, dt, c)
                          /\ after[i].velocity[c] =
                                Div(VerletCoord(i, dt, c) - particles[i].prevPosition[c],
                                    2 * dt)
                    /\ after[i].prevPosition = particles[i].position
                    /\ after[i].force = particles[i].force
                    /\ after[i].mass = particles[i].mass
                    /\ after[i].pinned = particles[i].pinned

\* after an update: a free particle in motion, with a force on it, whose
\* position and prevPosition differ, so that every term of the step counts
C25_Witness ==
    /\ lastOp = "update"
    /\ \E i \in DOMAIN particles :
          /\ ~particles[i].pinned
          /\ particles[i].force # ZeroVec
          /\ particles[i].velocity # ZeroVec
          /\ particles[i].prevPosition # particles[i].position
          /\ \A dt \in DTs :
                Integrate(particles, dt)[i].velocity # particles[i].velocity

-----------------------------------------------------------------------------
(* C26  Newton's third law, gated by the pin state.  The force step of a   *)
(* non-degenerate spring adds the total force to an unpinned endpoint a    *)
(* and subtracts it from an unpinned endpoint b, so with both unpinned the *)
(* two contributions cancel; a pinned endpoint receives nothing and no     *)
(* other particle is touched.  After a whole force accumulation every      *)
(* pinned particle has zero force, and on a cloth without pins the forces  *)
(* add up to the sum of gravity, drag and wind alone.                      *)

\* what the force step of spring k adds to the force of particle i
Contribution(k, i) ==
    VSub(SpringForceStep(particles, springs[k])[i].force, particles[i].force)

TotalFOf(k) == SpringTotalF(particles[springs[k].a], particles[springs[k].b], springs[k])

\* applyForces on the current state, and its first two loops alone
ForcesNow ==
    ApplyForces(particles, springs, par.gravity, par.airDamping, par.windEnabled,
                par.windStrength, par.windDirection, globalTime)

BaseNow(i) ==
    BaseForce(particles[i], par.gravity, par.airDamping, par.windEnabled,
              par.windStrength, par.windDirection, globalTime)

RECURSIVE SumTo(_, _)
SumTo(f(_), n) == IF n < 0 THEN ZeroVec ELSE VAdd(SumTo(f, n - 1), f(n))

C26_ThirdLaw ==
    /\ \A k \in DOMAIN springs :
          LET a == springs[k].a
              b == springs[k].b
          IN  ~Coincide(a, b) =>
                  /\ Contribution(k, a) = IF PinnedA(k) THEN ZeroVec ELSE TotalFOf(k)
                  /\ Contribution(k, b) = IF PinnedB(k) THEN ZeroVec
                                          ELSE VSub(ZeroVec, TotalFOf(k))
                  /\ (~PinnedA(k) /\ ~PinnedB(k)) =>
                         VAdd(Contribution(k, a), Contribution(k, b)) = ZeroVec
                  /\ \A i \in DOMAIN particles \ {a, b} : Contribution(k, i) = ZeroVec
    /\ LET forced == ForcesNow
           net(i) == forced[i].force
       IN  /\ \A i \in DOMAIN particles : particles[i].pinned => forced[i].force = ZeroVec
           /\ (\A i \in DOMAIN particles : ~particles[i].pinned) =>
                  SumTo(net, NumParticles - 1) = SumTo(BaseNow, NumParticles - 1)

\* a moved cloth that has a loaded spring between two free particles and a
\* loaded spring from a pinned particle to a free one
C26_Witness ==
    /\ lastOp = "update"
    /\ \E k \in DOMAIN springs :
          ~Coincide(springs[k].a, springs[k].b) /\ ~PinnedA(k) /\ ~PinnedB(k)
          /\ TotalFOf(k) # ZeroVec
    /\ \E k \in DOMAIN springs :
          ~Coincide(springs[k].a, springs[k].b) /\ (PinnedA(k) # PinnedB(k))
          /\ TotalFOf(k) # ZeroVec

\* a moved cloth without pins whose springs are loaded
C26_WitnessFree ==
    /\ lastOp = "update"
    /\ \A i \in DOMAIN particles : ~particles[i].pinned
    /\ \E k \in DOMAIN springs : TotalFOf(k) # ZeroVec

-----------------------------------------------------------------------------
(* C27  The rest state is a fixed point.  With gravity 0, wind disabled    *)
(* and maxCompress <= 1 <= maxStretch, a freshly constructed or freshly    *)
(* reset cloth keeps the position, prevPosition and velocity of every      *)
(* particle through any number of update calls, whatever particles are     *)
(* pinned.                                                                 *)

Unloaded ==
    /\ par.gravity = ZeroVec /\ ~par.windEnabled
    /\ par.maxCompress <= SCALE /\ SCALE <= par.maxStretch

C27_RestFixedPoint ==
    Unloaded =>
        \A i \in DOMAIN particles :
            /\ particles[i].position = FreshParticles[i].position
            /\ particles[i].prevPosition = FreshParticles[i].position
            /\ particles[i].velocity = ZeroVec

\* two updates in a row on a cloth of at least four particles, none pinned
C27_Witness ==
    /\ Unloaded
    /\ lastOp = "update" /\ globalTime > lastDt
    /\ NumParticles >= 4
    /\ \A i \in DOMAIN particles : ~particles[i].pinned

-----------------------------------------------------------------------------
(* C28  satisfyConstraints writes positions of unpinned particles only.    *)
(* Applied to the cloth any call has left, with any iteration count, it    *)
(* changes no prevPosition, velocity, force, mass or pinned flag and no    *)
(* position of a pinned particle.  Hence after an update the cached        *)
(* velocity of an unpinned particle is (newPosition - old prevPosition)    *)
(* / (2 dt) for the newPosition of the integrator, also when a correction  *)
(* has moved the particle away from newPosition.                           *)

\* the fields of q other than position are those of p
SameButPosition(p, q) == q = [p EXCEPT !.position = q.position]

\* satisfyConstraints keeps everything but the positions of free particles
OnlyFreePositions ==
    \A iters \in IterCounts :
        LET solved == SatisfyConstraints(particles, springs, iters,
                                         par.maxCompress, par.maxStretch)
        IN  \A i \in DOMAIN solved :
                /\ SameButPosition(particles[i], solved[i])
                /\ particles[i].pinned => solved[i].position = particles[i].position

C28_ConstraintFrame ==
    /\ []OnlyFreePositions
    /\ [][lastOp' = "update" =>
             LET integrated == Integrate(Accumulated, lastDt')
             IN  \A i \in DOMAIN particles :
                     ~particles[i].pinned =>
                         particles'[i].velocity =
                             VDivS(VSub(integrated[i].position, particles[i].prevPosition),
                                   2 * lastDt')]_vars

\* after an update whose constraint passes moved a free particle away from
\* the integrated position: its velocity no longer matches its positions
C28_Witness ==
    /\ lastOp = "update" /\ par.constraintIters > 0
    /\ \E i \in DOMAIN particles :
          /\ ~particles[i].pinned
          /\ particles[i].velocity # ZeroVec
          /\ \E c \in 1 .. 3 :
                Abs(2 * Mul(particles[i].velocity[c], lastDt) -
                      (particles[i].position[c] - particles[i].prevPosition[c])) > Tol

-----------------------------------------------------------------------------
(* C29  A pinned particle keeps its cached velocity.  An update leaves the *)
(* velocity, prevPosition and position of every pinned particle as they    *)
(* were, however the particle was moving when it was pinned.  The stored   *)
(* velocity of a pinned endpoint enters the axial damping of its springs:  *)
(* the force an update leaves on an unpinned particle is gravity, drag and *)
(* wind plus, for every non-degenerate spring at the particle, the Hooke   *)
(* term and damping * dot(vb - va, dir) * dir taken with the stored        *)
(* velocities of both endpoints.  In the update after unpinAll every       *)
(* particle is integrated from the prevPosition it has kept.               *)

\* unit vector from a to b of spring k
AxisOf(k) ==
    VDivS(VSub(particles[springs[k].b].position, particles[springs[k].a].position),
          SpringLen(k))

\* speed of b relative to a along the spring, from the stored velocities
ClosingSpeed(k) ==
    Dot(VSub(particles[springs[k].b].velocity, particles[springs[k].a].velocity),
        AxisOf(k))

\* force of spring k on its endpoint a
AxialForce(k) ==
    VAdd(VScale(AxisOf(k), Mul(springs[k].stiffness, SpringLen(k) - springs[k].restLength)),
         VScale(AxisOf(k), Mul(springs[k].damping, ClosingSpeed(k))))

\* force of spring k on particle i
PullOn(k, i) ==
    IF Coincide(springs[k].a, springs[k].b) THEN ZeroVec
    ELSE IF springs[k].a = i THEN AxialForce(k)
    ELSE IF springs[k].b = i THEN VSub(ZeroVec, AxialForce(k))
    ELSE ZeroVec

RECURSIVE PullSum(_, _)
PullSum(i, k) == IF k = 0 THEN ZeroVec ELSE VAdd(PullSum(i, k - 1), PullOn(k, i))

C29_PinnedVelocityKept ==
    [][lastOp' = "update" =>
          LET integrated == Integrate(Accumulated, lastDt')
          IN  \A i \in DOMAIN particles :
                  /\ particles[i].pinned =>
                         /\ particles'[i].velocity = particles[i].velocity
                         /\ particles'[i].prevPosition = particles[i].prevPosition
                         /\ particles'[i].position = particles[i].position
                  /\ ~particles[i].pinned =>
                         particles'[i].force =
                             VAdd(BaseForce(particles[i], par.gravity, par.airDamping,
                                            par.windEnabled, par.windStrength,
                                            par.windDirection, globalTime'),
                                  PullSum(i, Len(springs)))
                  /\ lastOp = "unpinAll" =>
                         /\ particles'[i].prevPosition = particles[i].position
                         /\ particles'[i].velocity =
                                VDivS(VSub(integrated[i].position,
                                           particles[i].prevPosition), 2 * lastDt')]_vars

\* after an update: a particle that was pinned while moving still has its
\* velocity and its offset between position and prevPosition, and a spring
\* to a free neighbour along which that velocity has a component
C29_Witness ==
    /\ lastOp = "update"
    /\ \E k \in DOMAIN springs :
          \E i \in {springs[k].a, springs[k].b} :
              /\ particles[i].pinned
              /\ particles[i].velocity # ZeroVec
              /\ particles[i].prevPosition # particles[i].position
              /\ PinnedA(k) # PinnedB(k)
              /\ ~Coincide(springs[k].a, springs[k].b)
              /\ Mul(springs[k].damping, Dot(particles[i].velocity, AxisOf(k))) # 0

-----------------------------------------------------------------------------
(* C30  One constraint projection is exact and centre-preserving.  When a  *)
(* non-degenerate out-of-band spring with at least one unpinned endpoint   *)
(* is corrected, its length right after the correction is the clamped      *)
(* target and its endpoints are still on the line they were on, in the     *)
(* same order (both up to the rounding of the arithmetic); when both       *)
(* endpoints are unpinned the sum of the two positions is unchanged.       *)

\* b - a for spring k after one solver step on spring k
DeltaAfter(k) ==
    LET solved == ConstraintStep(particles, springs[k], par.maxCompress, par.maxStretch)
    IN  VSub(solved[springs[k].b].position, solved[springs[k].a].position)

DeltaBefore(k) ==
    VSub(particles[springs[k].b].position, particles[springs[k].a].position)

TargetOf(k) == Clamp(SpringLen(k), MinLen(k), MaxLen(k))

\* cross product, in squared length units
Cross(u, v) ==
    <<u[2] * v[3] - u[3] * v[2], u[3] * v[1] - u[1] * v[3], u[1] * v[2] - u[2] * v[1]>>

\* what the arithmetic can change the corrected length of spring k by:
\* the rounding of the coordinates, of the ratio (dist - target) / dist to
\* thousandths, and of dist to one unit, scaled up by target / dist
Rounding(k) == Tol + SpringLen(k) \div SCALE + TargetOf(k) \div SpringLen(k)

\* u and v point the same way, up to a displacement of eps
Aligned(u, v, eps) ==
    /\ \A c \in 1 .. 3 : Abs(Cross(u, v)[c]) <= eps * (Length(u) + Length(v))
    /\ u[1] * v[1] + u[2] * v[2] + u[3] * v[3] >= 0

C30_ProjectionExact ==
    \A k \in DOMAIN springs :
        (OutOfBand(k) /\ ~BothPinned(k)) =>
            LET solved == ConstraintStep(particles, springs[k],
                                         par.maxCompress, par.maxStretch)
                a == springs[k].a
                b == springs[k].b
            IN  /\ Abs(Length(DeltaAfter(k)) - TargetOf(k)) <= Rounding(k)
                /\ Aligned(DeltaAfter(k), DeltaBefore(k), Tol)
                /\ (~PinnedA(k) /\ ~PinnedB(k)) =>
                       VAdd(solved[a].position, solved[b].position)
                         = VAdd(particles[a].position, particles[b].position)

\* a cloth with a stretched and a compressed spring to correct, each far
\* enough out of band for the correction to show, one between two free
\* particles and one with a pinned end
C30_Witness ==
    /\ \E k \in DOMAIN springs :
          /\ ~PinnedA(k) /\ ~PinnedB(k) /\ SpringLen(k) > MaxLen(k) + 10 * Tol
          /\ DeltaAfter(k) # DeltaBefore(k)
    /\ \E k \in DOMAIN springs :
          /\ SpringLen(k) > EPS_LEN /\ SpringLen(k) < MinLen(k) - 10 * Tol
          /\ ~BothPinned(k)
    /\ \E k \in DOMAIN springs :
          OutOfBand(k) /\ (PinnedA(k) # PinnedB(k)) /\ DeltaAfter(k) # DeltaBefore(k)

=============================================================================
